---- MODULE Spec2Model ----
(***************************************************************************)
(* A model of @typek/clap: the argument tokenizer (parseArguments), the    *)
(* flag queries built on it (has, get), the definition validator           *)
(* (validateCommandOptions) and the command resolution loop                *)
(* (Command(...).handle with matchSubcommand).                             *)
(*                                                                         *)
(* JavaScript strings are TLA+ strings: Len, \o and SubSeq act on them, a  *)
(* character is a string of length one.  The JavaScript value `undefined`  *)
(* is Undefined (for strings) or NoObject (for objects) below.             *)
(***************************************************************************)
EXTENDS Naturals, Integers, Sequences, FiniteSets, TLC

VARIABLES
    rawArgs,     \* the raw argument strings handed to parseArguments / handle
    parsedArgs,  \* parseArguments' parsedArgs array (Arguments.parsed)
    query,       \* the last has/get call on the Arguments object and its outcome
    options,     \* the CommandOptions handed to Command(...)
    args,        \* handle's local queue `args`
    command,     \* handle's local `command`
    matched,     \* the result of the last matchSubcommand call in handle
    thrown,      \* the error that left Command(...) / handle, or "none"
    invoked,     \* names of the commands whose action callback has run, in order
    pc           \* where the program is

vars == <<rawArgs, parsedArgs, query, options, args, command, matched, thrown, invoked, pc>>

\* JavaScript's undefined where a string may stand: a value that no string built
\* from the characters of the model equals.
Undefined == "#undefined"

\* JavaScript's undefined where an object may stand.
NoObject == [none |-> TRUE]

\* No has / get call has been made yet.
NoQuery == [fn |-> "none", a |-> Undefined, b |-> Undefined, result |-> NoObject]

----------------------------------------------------------------------------
\* Bounds of the explored inputs.

\* most raw arguments in one argument vector
MaxRaw == 2
\* most characters in one raw argument
MaxRawLen == 4
\* most characters in one argument vector handed to the tokenizer alone
MaxTotal == 6
\* most characters in one argument vector that is then queried with has / get
MaxQueryTotal == 4

\* The characters raw arguments are made of.
Chars == {"-", "=", "a"}

Min(x, y) == IF x < y THEN x ELSE y
Max(x, y) == IF x < y THEN y ELSE x

RECURSIVE Strs(_)
\* every string of exactly n characters
Strs(n) == IF n = 0 THEN {""} ELSE {s \o c : s \in Strs(n - 1), c \in Chars}

StrsUpTo(n) == UNION {Strs(k) : k \in 0..n}

RECURSIVE ArgLists(_, _)
\* every argument vector of at most k strings and at most budget characters
ArgLists(k, budget) ==
    IF k = 0 THEN {<<>>}
    ELSE {<<>>} \cup
         UNION {{<<s>> \o rest : rest \in ArgLists(k - 1, budget - Len(s))} :
                s \in StrsUpTo(Min(MaxRawLen, budget))}

----------------------------------------------------------------------------
\* JavaScript string primitives used by the source.

\* s[i] with a 0-based index: a one-character string, or undefined
CharAt(s, i) == IF i >= 0 /\ i < Len(s) THEN SubSeq(s, i + 1, i + 1) ELSE Undefined

\* startsWith(s, prefix) of @typek/typek
startsWith(s, prefix) == Len(s) >= Len(prefix) /\ SubSeq(s, 1, Len(prefix)) = prefix

\* s.indexOf(c) for a one-character c: the 0-based first position, or -1
indexOf(s, c) ==
    IF \E i \in 1..Len(s) : SubSeq(s, i, i) = c
    THEN (CHOOSE i \in 1..Len(s) :
            /\ SubSeq(s, i, i) = c
            /\ \A j \in 1..(i - 1) : SubSeq(s, j, j) # c) - 1
    ELSE -1

\* s.substring(from, to): both ends clamped to 0..length, swapped when from > to
substring(s, from, to) ==
    LET f == Min(Max(from, 0), Len(s))
        t == Min(Max(to, 0), Len(s))
    IN  SubSeq(s, Min(f, t) + 1, Max(f, t))

\* s.includes(x): x is a one-character string, or undefined, which JavaScript
\* converts to the nine-character string "undefined"
includes(s, x) ==
    IF x = Undefined
    THEN \E i \in 1..Len(s) : i + 8 <= Len(s) /\ SubSeq(s, i, i + 8) = "undefined"
    ELSE \E i \in 1..Len(s) : SubSeq(s, i, i) = x

----------------------------------------------------------------------------
\* parseArguments: the tokenizer.

\* A mutant of parse: the end-of-options marker is emitted but not remembered.
parse_ForgetsEoo(st, arg) ==
    IF st.eoo THEN [st EXCEPT !.parsedArgs = Append(@, [text |-> arg])]
    ELSE IF arg = "--"
    THEN [st EXCEPT !.parsedArgs = Append(@, [endOfOptions |-> "--"])]
    ELSE IF startsWith(arg, "--")
    THEN LET eq == indexOf(arg, "=")
         IN  IF eq = -1
             THEN [st EXCEPT !.parsedArgs = Append(@, [long |-> arg])]
             ELSE [st EXCEPT !.parsedArgs =
                      Append(@, [long |-> substring(arg, 0, eq),
                                 argument |-> substring(arg, eq + 1, Len(arg))])]
    ELSE IF startsWith(arg, "-")
    THEN [st EXCEPT !.parsedArgs = Append(@, [short |-> arg])]
    ELSE [st EXCEPT !.parsedArgs = Append(@, [text |-> arg])]

\* The closure `parse` of parseArguments: st holds its captured parsedArgs and eoo.
parse(st, arg) ==
    IF st.eoo THEN [st EXCEPT !.parsedArgs = Append(@, [text |-> arg])]
    ELSE IF arg = "--"
    THEN [eoo |-> TRUE, parsedArgs |-> Append(st.parsedArgs, [endOfOptions |-> "--"])]
    ELSE IF startsWith(arg, "--")
    THEN LET eq == indexOf(arg, "=")
         IN  IF eq = -1
             THEN [st EXCEPT !.parsedArgs = Append(@, [long |-> arg])]
             ELSE [st EXCEPT !.parsedArgs =
                      Append(@, [long |-> substring(arg, 0, eq),
                                 argument |-> substring(arg, eq + 1, Len(arg))])]
    ELSE IF startsWith(arg, "-")
    THEN [st EXCEPT !.parsedArgs = Append(@, [short |-> arg])]
    ELSE [st EXCEPT !.parsedArgs = Append(@, [text |-> arg])]

RECURSIVE parseFrom(_, _, _)
\* `for (const arg of rawArgs) parse(arg)` from the i-th raw argument on
parseFrom(raw, i, st) ==
    IF i > Len(raw) THEN st ELSE parseFrom(raw, i + 1, parse(st, raw[i]))

\* The `parsed` array of parseArguments(raw).
parseArguments(raw) == parseFrom(raw, 1, [eoo |-> FALSE, parsedArgs |-> <<>>]).parsedArgs

----------------------------------------------------------------------------
\* The tokenizer on its own: parseArguments applied to an argument vector.

InitTokenize ==
    /\ rawArgs \in ArgLists(MaxRaw, MaxTotal)
    /\ parsedArgs = <<>>
    /\ query = NoQuery
    /\ options = NoObject
    /\ args = <<>>
    /\ command = NoObject
    /\ matched = NoObject
    /\ thrown = "none"
    /\ invoked = <<>>
    /\ pc = "start"

\* parseArguments(rawArgs)
ParseArguments ==
    /\ pc = "start"
    /\ parsedArgs' = parseArguments(rawArgs)
    /\ pc' = "parsed"
    /\ UNCHANGED <<rawArgs, query, options, args, command, matched, thrown, invoked>>

NextTokenize == ParseArguments

SpecTokenize == InitTokenize /\ [][NextTokenize]_vars

\* Whether an exact "--" stands before position i of the raw arguments.
SeenEndOfOptions(i) == \E j \in 1..(i - 1) : rawArgs[j] = "--"

\* Whether token tok is the classification of raw string s, noEoo telling that no
\* exact "--" came before it.
Classifies(tok, s, noEoo) ==
    IF ~noEoo THEN tok = [text |-> s]
    ELSE IF s = "--" THEN tok = [endOfOptions |-> "--"]
    ELSE IF Len(s) >= 2 /\ SubSeq(s, 1, 2) = "--"
    THEN IF \A k \in 1..Len(s) : SubSeq(s, k, k) # "="
         THEN tok = [long |-> s]
         ELSE \E k \in 1..Len(s) :
                 /\ SubSeq(s, k, k) = "="
                 /\ \A j \in 1..(k - 1) : SubSeq(s, j, j) # "="
                 /\ DOMAIN tok = {"long", "argument"}
                 /\ tok.long = SubSeq(s, 1, k - 1)
                 /\ tok.argument = SubSeq(s, k + 1, Len(s))
    ELSE IF Len(s) >= 1 /\ SubSeq(s, 1, 1) = "-" THEN tok = [short |-> s]
    ELSE tok = [text |-> s]

\* C1: parseArguments yields one token per raw string, in order, each the
\* classification of its string: Text once an exact "--" has been seen, else
\* EndOfOptions for an exact "--" (so at most one), else LongFlag split at the first
\* "=" for a "--" prefix, else ShortFlagBundle for a "-" prefix, else Text.
C1_TokenizeClassifies ==
    pc = "parsed" =>
        /\ Len(parsedArgs) = Len(rawArgs)
        /\ \A i \in 1..Len(rawArgs) :
              Classifies(parsedArgs[i], rawArgs[i], ~SeenEndOfOptions(i))
        /\ Cardinality({i \in 1..Len(parsedArgs) :
                           parsedArgs[i] = [endOfOptions |-> "--"]}) <= 1

\* C1 witness: a flag-like string after the end-of-options marker was lowered to Text.
C1_Witness ==
    /\ pc = "parsed"
    /\ \E i \in 1..(Len(parsedArgs) - 1) :
          /\ parsedArgs[i] = [endOfOptions |-> "--"]
          /\ parsedArgs[i + 1] \in {[text |-> "--"], [text |-> "-a"]}

----------------------------------------------------------------------------
\* errors.ts

\* The kind of each error class; an error that is not a ClapError (a TypeError)
\* has no kind.
ErrorKind(error) ==
    CASE error = "ClapUnreachableError" -> "library-bug"
      [] error = "ClapConfigurationError" -> "developer-induced"
      [] error = "ClapSubcommandLongFlagValueError" -> "invalid-user-input"
      [] OTHER -> "none"

----------------------------------------------------------------------------
\* has and get: the flag queries of the Arguments object.

\* A JavaScript string in a boolean position: undefined and "" are falsy.
Truthy(x) == x # Undefined /\ x # ""

\* A mutant of flagSpec: a first argument without a dash is taken as a short name.
flagSpec_BareShort(a, b) ==
    IF startsWith(a, "--") THEN [long |-> a, short |-> b]
    ELSE IF startsWith(a, "-") THEN [long |-> Undefined, short |-> a]
    ELSE [long |-> Undefined, short |-> "-" \o a]

\* The [long, short] pair both has and get derive from their arguments, or the
\* TypeError thrown by yeet when `a` does not start with a dash.
flagSpec(a, b) ==
    IF startsWith(a, "--") THEN [long |-> a, short |-> b]
    ELSE IF startsWith(a, "-") THEN [long |-> Undefined, short |-> a]
    ELSE [threw |-> "TypeError"]

RECURSIVE has_FirstLetterScan(_, _, _, _)
\* A mutant of has' loop: only the first letter of a bundle is compared.
has_FirstLetterScan(parsed, i, long, short) ==
    IF i > Len(parsed) THEN FALSE
    ELSE LET arg == parsed[i]
         IN  IF "long" \in DOMAIN arg /\ arg.long = long THEN TRUE
             ELSE IF /\ "short" \in DOMAIN arg
                     /\ Truthy(short)
                     /\ CharAt(arg.short, 1) = CharAt(short, 1)
             THEN TRUE
             ELSE has_FirstLetterScan(parsed, i + 1, long, short)

RECURSIVE hasFrom(_, _, _, _)
\* The loop of has from the i-th token on.
hasFrom(parsed, i, long, short) ==
    IF i > Len(parsed) THEN FALSE
    ELSE LET arg == parsed[i]
         IN  IF "long" \in DOMAIN arg /\ arg.long = long THEN TRUE
             ELSE IF /\ "short" \in DOMAIN arg
                     /\ Truthy(short)
                     /\ includes(arg.short, CharAt(short, 1))
             THEN TRUE
             ELSE hasFrom(parsed, i + 1, long, short)

\* has(a, b) on the token sequence: [value |-> boolean] or [threw |-> "TypeError"].
has(parsed, a, b) ==
    LET fs == flagSpec(a, b)
    IN  IF "threw" \in DOMAIN fs THEN fs
        ELSE [value |-> hasFrom(parsed, 1, fs.long, fs.short)]

RECURSIVE getFrom_NoEmptyValue(_, _, _, _, _)
\* A mutant of get's loop: a matching long flag with neither an inline value nor a
\* following text leaves the running result as it was.
getFrom_NoEmptyValue(parsed, i, long, short, value) ==
    IF i > Len(parsed) THEN value
    ELSE LET arg == parsed[i]
             next == IF i + 1 <= Len(parsed) THEN parsed[i + 1] ELSE NoObject
             shortLetter == IF short = Undefined THEN Undefined ELSE CharAt(short, 1)
         IN  IF "long" \in DOMAIN arg /\ arg.long = long
             THEN IF "argument" \in DOMAIN arg
                  THEN getFrom_NoEmptyValue(parsed, i + 1, long, short, arg.argument)
                  ELSE IF "text" \in DOMAIN next
                  THEN getFrom_NoEmptyValue(parsed, i + 1, long, short, next.text)
                  ELSE getFrom_NoEmptyValue(parsed, i + 1, long, short, value)
             ELSE IF "short" \in DOMAIN arg /\ CharAt(arg.short, 1) = shortLetter
             THEN getFrom_NoEmptyValue(parsed, i + 1, long, short,
                                       substring(arg.short, 2, Len(arg.short)))
             ELSE getFrom_NoEmptyValue(parsed, i + 1, long, short, value)

RECURSIVE getFrom(_, _, _, _, _)
\* The loop of get from the i-th token on, value being the running result.
getFrom(parsed, i, long, short, value) ==
    IF i > Len(parsed) THEN value
    ELSE LET arg == parsed[i]
             next == IF i + 1 <= Len(parsed) THEN parsed[i + 1] ELSE NoObject
             shortLetter == IF short = Undefined THEN Undefined ELSE CharAt(short, 1)
         IN  IF "long" \in DOMAIN arg /\ arg.long = long
             THEN IF "argument" \in DOMAIN arg
                  THEN getFrom(parsed, i + 1, long, short, arg.argument)
                  ELSE IF "text" \in DOMAIN next
                  THEN getFrom(parsed, i + 1, long, short, next.text)
                  ELSE getFrom(parsed, i + 1, long, short, "")
             ELSE IF "short" \in DOMAIN arg /\ CharAt(arg.short, 1) = shortLetter
             THEN getFrom(parsed, i + 1, long, short,
                          substring(arg.short, 2, Len(arg.short)))
             ELSE getFrom(parsed, i + 1, long, short, value)

\* get(a, b) on the token sequence: [value |-> string or undefined] or
\* [threw |-> "TypeError"].
get(parsed, a, b) ==
    LET fs == flagSpec(a, b)
    IN  IF "threw" \in DOMAIN fs THEN fs
        ELSE [value |-> getFrom(parsed, 1, fs.long, fs.short, Undefined)]

\* The first arguments has / get are called with: no dash (empty or a bare
\* letter), one dash (alone, or with a letter in either case), two dashes (alone or
\* with a letter).
FlagFirst == {"", "a", "-", "-a", "-A", "--", "--a"}

\* The second arguments has / get are called with: none, or a short name in either
\* case.
FlagSecond == {Undefined, "-a", "-A"}

InitQuery ==
    /\ rawArgs \in ArgLists(MaxRaw, MaxQueryTotal)
    /\ parsedArgs = <<>>
    /\ query = NoQuery
    /\ options = NoObject
    /\ args = <<>>
    /\ command = NoObject
    /\ matched = NoObject
    /\ thrown = "none"
    /\ invoked = <<>>
    /\ pc = "start"

\* args.has(a, b): any flag spec, at any time after parsing; query records the call
\* and its result.
Has(a, b) ==
    /\ pc = "parsed"
    /\ query' = [fn |-> "has", a |-> a, b |-> b, result |-> has(parsedArgs, a, b)]
    /\ UNCHANGED <<rawArgs, parsedArgs, options, args, command, matched, thrown, invoked, pc>>

\* args.get(a, b): any flag spec, at any time after parsing.
Get(a, b) ==
    /\ pc = "parsed"
    /\ query' = [fn |-> "get", a |-> a, b |-> b, result |-> get(parsedArgs, a, b)]
    /\ UNCHANGED <<rawArgs, parsedArgs, options, args, command, matched, thrown, invoked, pc>>

NextQuery ==
    \/ ParseArguments
    \/ \E a \in FlagFirst, b \in FlagSecond : Has(a, b)
    \/ \E a \in FlagFirst, b \in FlagSecond : Get(a, b)

SpecQuery == InitQuery /\ [][NextQuery]_vars

\* A long name: the code takes any first argument starting with "--" as one.
IsLongName(s) == s # Undefined /\ Len(s) >= 2 /\ SubSeq(s, 1, 2) = "--"

\* A short name: a dash and one character; "--" is a long name, not a short one.
IsShortName(s) ==
    s # Undefined /\ Len(s) = 2 /\ SubSeq(s, 1, 1) = "-" /\ SubSeq(s, 2, 2) # "-"

\* A valid flag spec: a long name, a short name, or a long/short pair.
ValidFlagSpec(a, b) ==
    \/ IsLongName(a) /\ b = Undefined
    \/ IsShortName(a) /\ b = Undefined
    \/ IsLongName(a) /\ IsShortName(b)

\* The long and the short name a valid flag spec gives, Undefined when it gives none.
LongOf(a, b) == IF IsLongName(a) THEN a ELSE Undefined
ShortOf(a, b) == IF IsLongName(a) THEN b ELSE a

\* Token tok is a LongFlag named long.
LongFlagNamed(tok, long) == "long" \in DOMAIN tok /\ long # Undefined /\ tok.long = long

\* Token tok is a ShortFlagBundle with letter short[1] among the characters after its dash.
BundleContains(tok, short) ==
    /\ "short" \in DOMAIN tok
    /\ short # Undefined
    /\ \E k \in 2..Len(tok.short) : SubSeq(tok.short, k, k) = SubSeq(short, 2, 2)

\* Raw string s, standing before any end-of-options marker, spells a flag the spec
\* names: "--" followed by the long name up to a first "=" or the end, or one dash
\* followed by letters among which is the short letter.  An exact "--" spells none.
RawNamesFlag(s, long, short) ==
    IF s = "--" THEN FALSE
    ELSE IF Len(s) >= 2 /\ SubSeq(s, 1, 2) = "--"
    THEN /\ long # Undefined
         /\ IF \A k \in 1..Len(s) : SubSeq(s, k, k) # "="
            THEN s = long
            ELSE \E k \in 1..Len(s) :
                    /\ SubSeq(s, k, k) = "="
                    /\ \A j \in 1..(k - 1) : SubSeq(s, j, j) # "="
                    /\ SubSeq(s, 1, k - 1) = long
    ELSE IF Len(s) >= 1 /\ SubSeq(s, 1, 1) = "-"
    THEN /\ short # Undefined
         /\ \E k \in 2..Len(s) : SubSeq(s, k, k) = SubSeq(short, 2, 2)
    ELSE FALSE

\* C2: for a valid flag spec, has is true exactly when some LongFlag token has the
\* long name or some ShortFlagBundle token has the short letter among its letters
\* (compared exactly, so case-sensitively); a string after the end-of-options
\* marker never makes has true: has is true exactly when a raw string standing
\* before any "--" spells such a flag.
C2_HasIffFlagPresent ==
    (query.fn = "has" /\ ValidFlagSpec(query.a, query.b)) =>
        LET long == LongOf(query.a, query.b)
            short == ShortOf(query.a, query.b)
            hit(i) == \/ LongFlagNamed(parsedArgs[i], long)
                      \/ BundleContains(parsedArgs[i], short)
        IN  /\ query.result = [value |-> \E i \in 1..Len(parsedArgs) : hit(i)]
            /\ query.result = [value |-> TRUE] =>
                  \E i \in 1..Len(rawArgs) : ~SeenEndOfOptions(i) /\ hit(i)
            /\ query.result =
                  [value |-> \E i \in 1..Len(rawArgs) :
                                ~SeenEndOfOptions(i) /\ RawNamesFlag(rawArgs[i], long, short)]

\* has answered false although a raw string spelling the flag asked for (the long
\* name, or a bundle holding the short letter) stands after the end-of-options
\* marker.
C2_Witness ==
    /\ query.fn = "has" /\ ValidFlagSpec(query.a, query.b)
    /\ query.result = [value |-> FALSE]
    /\ \E i \in 1..Len(rawArgs) :
          /\ SeenEndOfOptions(i)
          /\ RawNamesFlag(rawArgs[i], LongOf(query.a, query.b), ShortOf(query.a, query.b))

\* has found a letter that is not the first of its bundle.
C2_LaterLetterFound ==
    /\ query.fn = "has" /\ ValidFlagSpec(query.a, query.b)
    /\ query.result = [value |-> TRUE]
    /\ \E i \in 1..Len(parsedArgs) :
          /\ BundleContains(parsedArgs[i], ShortOf(query.a, query.b))
          /\ SubSeq(parsedArgs[i].short, 2, 2) # SubSeq(ShortOf(query.a, query.b), 2, 2)

\* Token i matches the flag spec as get's claim has it: a LongFlag with the long
\* name, or a ShortFlagBundle whose first letter is the short letter.
GetMatches(i, long, short) ==
    LET tok == parsedArgs[i]
    IN  \/ LongFlagNamed(tok, long)
        \/ /\ "short" \in DOMAIN tok
           /\ short # Undefined
           /\ Len(tok.short) >= 2
           /\ SubSeq(tok.short, 2, 2) = SubSeq(short, 2, 2)

\* The value a matching token i contributes.
GetContribution(i) ==
    LET tok == parsedArgs[i]
    IN  IF "long" \in DOMAIN tok
        THEN IF "argument" \in DOMAIN tok THEN tok.argument
             ELSE IF i < Len(parsedArgs) /\ "text" \in DOMAIN parsedArgs[i + 1]
             THEN parsedArgs[i + 1].text
             ELSE ""
        ELSE SubSeq(tok.short, 3, Len(tok.short))

\* C3: for a valid flag spec, get is undefined when no token matches, and otherwise
\* the value contributed by the last matching token; a ShortFlagBundle matches only
\* when a short spec is given and its first letter is the spec's letter.
C3_GetLastMatchWins ==
    (query.fn = "get" /\ ValidFlagSpec(query.a, query.b)) =>
        LET long == LongOf(query.a, query.b)
            short == ShortOf(query.a, query.b)
            hits == {i \in 1..Len(parsedArgs) : GetMatches(i, long, short)}
        IN  IF hits = {} THEN query.result = [value |-> Undefined]
            ELSE LET last == CHOOSE i \in hits : \A j \in hits : j <= i
                 IN  query.result = [value |-> GetContribution(last)]

\* A query has been made with a first argument that does not start with a dash.
QueriedWithoutDash == query.fn # "none" /\ ~startsWith(query.a, "-")

\* C14: has and get raise an error instead of returning a value whenever their first
\* argument does not start with a dash, whatever the token sequence is (empty, or
\* holding nothing that could match, or holding the very letter asked for).  The
\* error is a TypeError: it is not one of the library's error classes and carries
\* no kind.
C14_NoDashThrowsTypeError ==
    QueriedWithoutDash =>
        /\ query.result = [threw |-> "TypeError"]
        /\ ErrorKind(query.result.threw) = "none"

\* C14 as stated: the error raised is a developer-induced error.
C14_NoDashThrowsDeveloperInduced ==
    QueriedWithoutDash =>
        /\ "threw" \in DOMAIN query.result
        /\ ErrorKind(query.result.threw) = "developer-induced"

\* get("a") was called on tokens holding the bundle -a, and threw.
C14_Witness ==
    /\ query.fn = "get" /\ query.a = "a"
    /\ \E i \in 1..Len(parsedArgs) : parsedArgs[i] = [short |-> "-a"]
    /\ "threw" \in DOMAIN query.result

\* Every token is a flag: a LongFlag or a ShortFlagBundle.
FlagsOnly ==
    \A i \in 1..Len(parsedArgs) :
        "long" \in DOMAIN parsedArgs[i] \/ "short" \in DOMAIN parsedArgs[i]

\* has has just returned true for a valid flag spec on flag tokens only, and get is
\* called next with the same spec.
GetAfterHasTrue ==
    /\ query.fn = "has" /\ query'.fn = "get"
    /\ query'.a = query.a /\ query'.b = query.b
    /\ ValidFlagSpec(query.a, query.b)
    /\ FlagsOnly
    /\ query.result = [value |-> TRUE]

\* A query follows a query of the same function with the same flag spec: the result
\* is the same; and no query changes the token sequence.
QueriesRepeatable ==
    /\ (query.fn # "none" /\ query'.fn = query.fn /\ query'.a = query.a /\ query'.b = query.b) =>
          query'.result = query.result
    /\ query'.fn # "none" /\ query.fn # "none" => parsedArgs' = parsedArgs

\* The tokens are the classification of the raw arguments, string by string.
TokensOfRaw ==
    /\ Len(parsedArgs) = Len(rawArgs)
    /\ \A i \in 1..Len(rawArgs) :
          Classifies(parsedArgs[i], rawArgs[i], ~SeenEndOfOptions(i))

\* Token i gives get a value for the flag spec: a LongFlag with the long name, a
\* ShortFlagBundle whose first letter is the short letter, or, when the spec has no
\* short name, a bare "-" (C3).
GivesValue(i, long, short) ==
    \/ GetMatches(i, long, short)
    \/ short = Undefined /\ parsedArgs[i] = [short |-> "-"]

\* The result of the last query on a valid flag spec is the one the tokens fix: for
\* has, whether some token is a LongFlag of the long name or a bundle holding the
\* short letter; for get, the value of the last token that gives one, undefined
\* when none does.
ResultFixedByTokens ==
    (query.fn # "none" /\ ValidFlagSpec(query.a, query.b)) =>
        LET long == LongOf(query.a, query.b)
            short == ShortOf(query.a, query.b)
            givers == {i \in 1..Len(parsedArgs) : GivesValue(i, long, short)}
        IN  IF query.fn = "has"
            THEN query.result =
                   [value |-> \E i \in 1..Len(parsedArgs) :
                                 \/ LongFlagNamed(parsedArgs[i], long)
                                 \/ BundleContains(parsedArgs[i], short)]
            ELSE IF givers = {} THEN query.result = [value |-> Undefined]
            ELSE query.result =
                   [value |-> GetContribution(CHOOSE i \in givers : \A j \in givers : j <= i)]

\* Some token carries a value for the flag spec of the last query.
SomeTokenValued ==
    \E i \in 1..Len(parsedArgs) :
        GetMatches(i, LongOf(query.a, query.b), ShortOf(query.a, query.b))

\* C15: on flag tokens only and for a valid flag spec, when has returns true, get
\* called next returns a defined value if some token carries a value for the spec
\* (a LongFlag of the long name, or a bundle whose first letter is the short
\* letter), and undefined if has was true only through a later letter of a bundle.
\* has and get called again give the same result and never change the tokens:
\* after every query, whatever queries came before, the tokens are still the
\* classification of the raw arguments and the result is the one those tokens fix.
C15_HasThenGetWhenValued ==
    /\ [][/\ (GetAfterHasTrue /\ SomeTokenValued) =>
                "value" \in DOMAIN query'.result /\ query'.result.value # Undefined
          /\ (GetAfterHasTrue /\ ~SomeTokenValued) => query'.result = [value |-> Undefined]
          /\ QueriesRepeatable]_vars
    /\ [](pc = "parsed" => TokensOfRaw /\ ResultFixedByTokens)

\* C15 as stated: whenever has returns true, get called next returns a defined value.
C15_HasThenGet ==
    [][/\ GetAfterHasTrue => query'.result # [value |-> Undefined]
       /\ QueriesRepeatable]_vars

\* has was true and get returned a defined value for a LongFlag of the long name
\* that carries no inline value and is followed by another flag token, which get
\* looks at and does not take as the value.
C15_Witness ==
    /\ query.fn = "get" /\ ValidFlagSpec(query.a, query.b)
    /\ Len(parsedArgs) = 2 /\ FlagsOnly
    /\ parsedArgs[1] = [long |-> query.a]
    /\ has(parsedArgs, query.a, query.b) = [value |-> TRUE]
    /\ query.result = [value |-> ""]

\* has was true only through a later letter of a bundle, and get returned undefined.
C15_LaterLetterUndefined ==
    /\ query.fn = "get" /\ ValidFlagSpec(query.a, query.b)
    /\ FlagsOnly
    /\ has(parsedArgs, query.a, query.b) = [value |-> TRUE]
    /\ query.result = [value |-> Undefined]

----------------------------------------------------------------------------
\* Command definitions.

\* most subcommands in one subcommands list
MaxSubs == 2
\* most subcommand definitions plus options set on them and on the root, per tree
MaxTreeSize == 4
\* most levels of subcommands below the root
MaxDepth == 2
\* most raw arguments handed to handle
MaxHandleArgs == 2

\* A SubcommandDefinition.  An omitted boolean option is FALSE and an omitted list
\* is empty (the code reads them only through truthiness, `?? []` and `?.length`);
\* an omitted longFlag / shortFlag is Undefined; action tells whether an action
\* callback is declared.
SubcommandDefinition(n, ac, rq, su, df, al, lf, la, sf, sa, dw) ==
    [name |-> n, action |-> ac, subcommandRequired |-> rq, subcommands |-> su,
     isDefault |-> df, alias |-> al, longFlag |-> lf, longFlagAliases |-> la,
     shortFlag |-> sf, shortFlagAliases |-> sa, disallowWithoutFlag |-> dw]

\* The CommandOptions of a root command: a CommandDefinition, none of the
\* subcommand-only options set.
CommandOptions(ac, rq, su) ==
    SubcommandDefinition("app", ac, rq, su, FALSE, <<>>, Undefined, <<>>, Undefined, <<>>, FALSE)

\* The number of options a definition sets, its subcommands list aside.
OptionCount(d) ==
    (IF d.action THEN 1 ELSE 0) + (IF d.subcommandRequired THEN 1 ELSE 0) +
    (IF d.isDefault THEN 1 ELSE 0) + (IF d.alias # <<>> THEN 1 ELSE 0) +
    (IF d.longFlag # Undefined THEN 1 ELSE 0) + (IF d.longFlagAliases # <<>> THEN 1 ELSE 0) +
    (IF d.shortFlag # Undefined THEN 1 ELSE 0) + (IF d.shortFlagAliases # <<>> THEN 1 ELSE 0) +
    (IF d.disallowWithoutFlag THEN 1 ELSE 0)

\* The upper-case letter of a subcommand name, used for its aliases.
Upper(n) == IF n = "a" THEN "A" ELSE "B"

\* Every subcommand definition without subcommands, named "a" or "b".  Flags and
\* aliases are spelled after the name; a short flag or short alias may also be the
\* empty string or two characters long.
LeafDefinitions ==
    UNION {{SubcommandDefinition(n, ac, rq, <<>>, df, al, lf, la, sf, sa, dw) :
              ac \in BOOLEAN, rq \in BOOLEAN, df \in BOOLEAN, dw \in BOOLEAN,
              al \in {<<>>, <<Upper(n)>>},
              lf \in {Undefined, n}, la \in {<<>>, <<Upper(n)>>},
              sf \in {Undefined, n, "", n \o n},
              sa \in {<<>>, <<Upper(n)>>, <<"">>, <<n \o n>>}} :
           n \in {"a", "b"}}

\* The leaf definitions that set exactly c options, for each c.
LeafDefinitionsOf == [c \in 0..9 |-> {d \in LeafDefinitions : OptionCount(d) = c}]

RECURSIVE DefinitionSize(_)
\* The size of a definition: one, plus the options it sets, plus its subcommands' sizes.
DefinitionSize(d) ==
    LET RECURSIVE ListSize(_, _)
        ListSize(l, i) == IF i > Len(l) THEN 0 ELSE DefinitionSize(l[i]) + ListSize(l, i + 1)
    IN  1 + OptionCount(d) + ListSize(d.subcommands, 1)

RECURSIVE SubcommandLists(_, _, _)
\* Every subcommands list of at most k definitions, nested at most depth levels
\* deep, of total size exactly size.
SubcommandLists(k, depth, size) ==
    IF size = 0 THEN {<<>>}
    ELSE IF k = 0 \/ depth = 0 THEN {}
    ELSE LET \* the definitions of size exactly hs that may head the list
             heads(hs) ==
                UNION {{[d EXCEPT !.subcommands = su] :
                          d \in LeafDefinitionsOf[hs - 1 - ks],
                          su \in SubcommandLists(MaxSubs, depth - 1, ks)} :
                       ks \in {x \in 0..(hs - 1) : hs - 1 - x <= 9}}
         IN  UNION {{<<d>> \o rest :
                       d \in heads(hs),
                       rest \in SubcommandLists(k - 1, depth, size - hs)} :
                    hs \in 1..size}

\* Every command tree of total size at most maxSize: a root that may declare an
\* action and require a subcommand, over a subcommands list.
CommandTrees(maxSize) ==
    UNION {{CommandOptions(f[1], f[2], su) :
              f \in {g \in BOOLEAN \X BOOLEAN :
                       size + OptionCount(CommandOptions(g[1], g[2], <<>>)) <= maxSize},
              su \in SubcommandLists(MaxSubs, MaxDepth, size)} :
           size \in 0..maxSize}

\* The raw arguments handle is called with: words that name, or nearly name, the
\* subcommands "a" and "b" as text, as short flags and as long flags.
HandleWords ==
    {"a", "A", "b"} \cup {"-", "-a", "-A", "-ab"} \cup {"--", "--a", "--A", "--a=", "--a=b"}

RECURSIVE HandleArgLists(_)
\* Every argument vector of at most k of these words.
HandleArgLists(k) ==
    IF k = 0 THEN {<<>>}
    ELSE {<<>>} \cup {<<w>> \o rest : w \in HandleWords, rest \in HandleArgLists(k - 1)}

----------------------------------------------------------------------------
\* validate.ts: each validator gives TRUE when it throws ClapConfigurationError.

validateSubcommandRequired(x) == x.subcommandRequired /\ Len(x.subcommands) = 0

\* A mutant of validateMultipleDefault: two default subcommands are let through.
validateMultipleDefault_AllowsTwo(x) ==
    Cardinality({i \in 1..Len(x.subcommands) : x.subcommands[i].isDefault}) > 2

validateMultipleDefault(x) ==
    Cardinality({i \in 1..Len(x.subcommands) : x.subcommands[i].isDefault}) > 1

validateDisallowWithoutFlag(x) ==
    x.disallowWithoutFlag /\ ~(Truthy(x.longFlag) \/ Truthy(x.shortFlag))

validateShortFlagSingleChar(x) == Truthy(x.shortFlag) /\ Len(x.shortFlag) # 1

validateShortFlagAliasesSingleChar(x) ==
    \E i \in 1..Len(x.shortFlagAliases) :
        validateShortFlagSingleChar([name |-> x.name, shortFlag |-> x.shortFlagAliases[i]])

validateFlagAliasesWithoutFlag(x, type) ==
    IF type = "long" THEN Len(x.longFlagAliases) > 0 /\ ~Truthy(x.longFlag)
    ELSE Len(x.shortFlagAliases) > 0 /\ ~Truthy(x.shortFlag)

RECURSIVE validateSubcommandDefinition(_)
\* validateCommandDefinition, with validateSubcommands walking the subcommands.
validateCommandDefinition(x) ==
    \/ validateSubcommandRequired(x)
    \/ validateMultipleDefault(x)
    \/ \E i \in 1..Len(x.subcommands) : validateSubcommandDefinition(x.subcommands[i])

validateSubcommandDefinition(x) ==
    \/ validateCommandDefinition(x)
    \/ validateDisallowWithoutFlag(x)
    \/ validateShortFlagSingleChar(x)
    \/ validateShortFlagAliasesSingleChar(x)
    \/ validateFlagAliasesWithoutFlag(x, "long")
    \/ validateFlagAliasesWithoutFlag(x, "short")

validateCommandOptions(x) == validateCommandDefinition(x)

----------------------------------------------------------------------------
\* command.ts: matchSubcommand and the Command object.

\* No matchSubcommand call has been made yet.
NoMatch == [command |-> NoObject, argument |-> NoObject, result |-> NoObject]

\* [sub.shortFlag, ...(sub.shortFlagAliases ?? [])] and its long counterpart, as sets.
ShortFlags(sub) == {sub.shortFlag} \cup {sub.shortFlagAliases[i] : i \in 1..Len(sub.shortFlagAliases)}
LongFlags(sub) == {sub.longFlag} \cup {sub.longFlagAliases[i] : i \in 1..Len(sub.longFlagAliases)}

\* command.subcommands?.find((s) => s.isDefault) of matchSubcommand.
DefaultSubcommand(cmd) ==
    IF \E i \in 1..Len(cmd.subcommands) : cmd.subcommands[i].isDefault
    THEN cmd.subcommands[CHOOSE i \in 1..Len(cmd.subcommands) :
                            /\ cmd.subcommands[i].isDefault
                            /\ \A j \in 1..(i - 1) : ~cmd.subcommands[j].isDefault]
    ELSE NoObject

RECURSIVE matchFrom(_, _, _)
\* The loop of matchSubcommand from the i-th subcommand on, then its two tails.
\* The result is [sub, nextArg], an omitted one being NoObject, or the error thrown.
matchFrom(cmd, argument, i) ==
    IF i > Len(cmd.subcommands)
    THEN [sub |-> DefaultSubcommand(cmd), nextArg |-> argument]
    ELSE LET sub == cmd.subcommands[i]
         IN  IF /\ "text" \in DOMAIN argument
                /\ ~sub.disallowWithoutFlag
                /\ argument.text = sub.name
             THEN [sub |-> sub, nextArg |-> NoObject]
             ELSE IF /\ "long" \in DOMAIN argument
                     /\ sub.longFlag # Undefined
                     /\ substring(argument.long, 2, Len(argument.long)) \in LongFlags(sub)
             THEN IF "argument" \in DOMAIN argument
                  THEN [threw |-> "ClapSubcommandLongFlagValueError",
                        flag |-> argument.long, value |-> argument.argument]
                  ELSE [sub |-> sub, nextArg |-> NoObject]
             ELSE IF /\ "short" \in DOMAIN argument
                     /\ sub.shortFlag # Undefined
                     /\ CharAt(argument.short, 1) # Undefined
                     /\ CharAt(argument.short, 1) \in ShortFlags(sub)
             THEN IF Len(argument.short) = 2
                  THEN [sub |-> sub, nextArg |-> NoObject]
                  ELSE [sub |-> sub,
                        nextArg |-> [short |-> "-" \o substring(argument.short, 2,
                                                                Len(argument.short))]]
             ELSE matchFrom(cmd, argument, i + 1)

matchSubcommand(cmd, argument) == matchFrom(cmd, argument, 1)

InitHandle ==
    /\ options \in CommandTrees(MaxTreeSize)
    /\ rawArgs = <<>>
    /\ parsedArgs = <<>>
    /\ query = NoQuery
    /\ args = <<>>
    /\ command = NoObject
    /\ matched = NoMatch
    /\ thrown = "none"
    /\ invoked = <<>>
    /\ pc = "start"

\* Command(options): validateCommandOptions, then the Command object.
CreateCommand ==
    /\ pc = "start"
    /\ IF validateCommandOptions(options)
       THEN thrown' = "ClapConfigurationError" /\ pc' = "rejected"
       ELSE thrown' = thrown /\ pc' = "created"
    /\ UNCHANGED <<rawArgs, parsedArgs, query, options, args, command, matched, invoked>>

\* handle(raw) up to its loop: the raw arguments are tokenized, the queue is a copy
\* of the tokens and the current command is the root.
HandleCall(raw) ==
    /\ pc = "created"
    /\ rawArgs' = raw
    /\ parsedArgs' = parseArguments(raw)
    /\ args' = parsedArgs'
    /\ command' = options
    /\ pc' = "loop"
    /\ UNCHANGED <<query, options, matched, thrown, invoked>>

\* A mutant of the loop body: the front token is matched but left on the queue, and
\* the loop goes round again instead of ending.
HandleIterate_KeepsToken ==
    /\ pc = "loop"
    /\ Len(args) > 0
    /\ LET arg == Head(args)
           result == matchSubcommand(command, arg)
       IN  /\ matched' = [command |-> command, argument |-> arg, result |-> result]
           /\ thrown' = thrown
    /\ UNCHANGED <<rawArgs, parsedArgs, query, options, args, command, invoked, pc>>

\* One iteration of handle's loop: the front token is shifted off the queue and
\* matched against the current command; the result is not used (`if (sub) {}`), and
\* the iteration ends by throwing ClapUnreachableError, unless matchSubcommand threw.
HandleIterate ==
    /\ pc = "loop"
    /\ Len(args) > 0
    /\ LET arg == Head(args)
           result == matchSubcommand(command, arg)
       IN  /\ args' = Tail(args)
           /\ matched' = [command |-> command, argument |-> arg, result |-> result]
           /\ thrown' = IF "threw" \in DOMAIN result THEN result.threw
                        ELSE "ClapUnreachableError"
    /\ pc' = "threw"
    /\ UNCHANGED <<rawArgs, parsedArgs, query, options, command, invoked>>

\* handle returns once the queue is empty; no action callback is called.
HandleReturn ==
    /\ pc = "loop"
    /\ Len(args) = 0
    /\ pc' = "returned"
    /\ UNCHANGED <<rawArgs, parsedArgs, query, options, args, command, matched, thrown, invoked>>

NextHandle ==
    \/ CreateCommand
    \/ \E raw \in HandleArgLists(MaxHandleArgs) : HandleCall(raw)
    \/ HandleIterate
    \/ HandleReturn

SpecHandle == InitHandle /\ [][NextHandle]_vars

----------------------------------------------------------------------------
\* Termination of handle.

\* largest tree size and most raw arguments explored for termination
MaxTermTreeSize == 2
MaxTermArgs == 1

InitTerminate ==
    /\ options \in CommandTrees(MaxTermTreeSize)
    /\ rawArgs = <<>>
    /\ parsedArgs = <<>>
    /\ query = NoQuery
    /\ args = <<>>
    /\ command = NoObject
    /\ matched = NoMatch
    /\ thrown = "none"
    /\ invoked = <<>>
    /\ pc = "start"

NextTerminate ==
    \/ CreateCommand
    \/ \E raw \in HandleArgLists(MaxTermArgs) : HandleCall(raw)
    \/ HandleIterate
    \/ HandleReturn

\* handle is straight-line synchronous code: once called, its loop test and its loop
\* body run without waiting on anything, so an enabled step of it is taken.
SpecTerminate ==
    InitTerminate /\ [][NextTerminate]_vars /\ WF_vars(HandleIterate) /\ WF_vars(HandleReturn)

\* handle is inside its loop / has left it by returning or by throwing.
InLoop == pc = "loop"
HandleEnded == pc \in {"returned", "threw"}

\* What one pass of the loop over a non-empty queue does to the queue and the
\* current command: a token leaves the queue, or the front bundle is replaced by a
\* strictly shorter one, or the current command becomes one of its subcommands.
IterationProgress ==
    \/ Len(args') < Len(args)
    \/ /\ Len(args') = Len(args)
       /\ "short" \in DOMAIN Head(args)
       /\ "short" \in DOMAIN Head(args')
       /\ Len(Head(args').short) < Len(Head(args).short)
    \/ \E i \in 1..Len(command.subcommands) : command' = command.subcommands[i]

\* C11: on a validated tree handle terminates, by returning or by throwing, after
\* finitely many loop iterations: every pass of the loop over a non-empty queue
\* removes a token, shortens the front bundle or descends one level, and a call that
\* has entered the loop eventually leaves it.
C11_HandleTerminates ==
    /\ [][(InLoop /\ Len(args) > 0) => IterationProgress]_vars
    /\ InLoop ~> HandleEnded

\* handle was called with a bundle of two letters whose first letter selects a
\* subcommand (the shorter bundle is what matchSubcommand hands back); the pass
\* removed the bundle from the queue and ended the call.
C11_Witness ==
    /\ pc = "threw"
    /\ Len(parsedArgs) = 1
    /\ Len(args) = 0
    /\ "short" \in DOMAIN matched.argument
    /\ "nextArg" \in DOMAIN matched.result
    /\ "short" \in DOMAIN matched.result.nextArg
    /\ Len(matched.result.nextArg.short) < Len(matched.argument.short)

----------------------------------------------------------------------------
\* Creation of a Command over trees that differ in their default subcommands.

\* most subcommand definitions in one such tree, and most raw arguments handed to
\* handle on it
MaxDefaultNodes == 3
MaxDefaultArgs == 1

RECURSIVE DefaultLists(_, _, _)
\* Every subcommands list of at most k definitions, nested at most depth levels
\* deep, of exactly n definitions in all; each definition declares an action and is
\* or is not the default; the first of a list is named "a", the others "b".
DefaultLists(k, depth, n) ==
    IF n = 0 THEN {<<>>}
    ELSE IF k = 0 \/ depth = 0 THEN {}
    ELSE UNION {{<<SubcommandDefinition(IF k = MaxSubs THEN "a" ELSE "b", TRUE, FALSE, su, df,
                                        <<>>, Undefined, <<>>, Undefined, <<>>, FALSE)>> \o rest :
                   df \in BOOLEAN,
                   su \in DefaultLists(MaxSubs, depth - 1, hn - 1),
                   rest \in DefaultLists(k - 1, depth, n - hn)} :
                hn \in 1..n}

\* Every such tree of at most maxNodes subcommand definitions, under a root that
\* declares an action.
DefaultTrees(maxNodes) ==
    UNION {{CommandOptions(TRUE, FALSE, su) : su \in DefaultLists(MaxSubs, MaxDepth, n)} :
           n \in 0..maxNodes}

InitDefault ==
    /\ options \in DefaultTrees(MaxDefaultNodes)
    /\ rawArgs = <<>>
    /\ parsedArgs = <<>>
    /\ query = NoQuery
    /\ args = <<>>
    /\ command = NoObject
    /\ matched = NoMatch
    /\ thrown = "none"
    /\ invoked = <<>>
    /\ pc = "start"

NextDefault ==
    \/ CreateCommand
    \/ \E raw \in HandleArgLists(MaxDefaultArgs) : HandleCall(raw)
    \/ HandleIterate
    \/ HandleReturn

SpecDefault == InitDefault /\ [][NextDefault]_vars

RECURSIVE HasTwoDefaults(_)
\* Some command of the tree under cmd, cmd included, has two or more direct
\* subcommands with isDefault true.
HasTwoDefaults(cmd) ==
    \/ \E i, j \in 1..Len(cmd.subcommands) :
          i < j /\ cmd.subcommands[i].isDefault /\ cmd.subcommands[j].isDefault
    \/ \E i \in 1..Len(cmd.subcommands) : HasTwoDefaults(cmd.subcommands[i])

\* C12: when some command of the tree, at any depth, has two or more default
\* subcommands, creating the Command fails with ClapConfigurationError
\* (developer-induced) and nothing follows: no handle call starts, whatever the
\* arguments would be, no token is evaluated and no action runs.  A tree whose
\* commands each have at most one default subcommand is not rejected by this rule.
C12_MultipleDefaultRejected ==
    pc # "start" =>
        IF HasTwoDefaults(options)
        THEN /\ pc = "rejected"
             /\ thrown = "ClapConfigurationError"
             /\ ErrorKind(thrown) = "developer-induced"
             /\ rawArgs = <<>> /\ parsedArgs = <<>> /\ args = <<>>
             /\ command = NoObject
             /\ matched = NoMatch
             /\ invoked = <<>>
        ELSE pc # "rejected" /\ thrown # "ClapConfigurationError"

\* Creation was rejected for a tree whose root has at most one default subcommand
\* but one of whose subcommands has two.
C12_Witness ==
    /\ pc = "rejected"
    /\ ~validateMultipleDefault(options)
    /\ \E i \in 1..Len(options.subcommands) : HasTwoDefaults(options.subcommands[i])

\* Creation succeeded and handle ran on a tree with exactly one default subcommand.
C12_WitnessOneDefault ==
    /\ pc = "threw"
    /\ DefaultSubcommand(options) # NoObject
    /\ ~HasTwoDefaults(options)

\* The subcommands of cmd, in declaration order, that satisfy test.
FirstSubcommand(cmd, test(_)) ==
    cmd.subcommands[CHOOSE i \in 1..Len(cmd.subcommands) :
                       /\ test(cmd.subcommands[i])
                       /\ \A j \in 1..(i - 1) : ~test(cmd.subcommands[j])]

SomeSubcommand(cmd, test(_)) == \E i \in 1..Len(cmd.subcommands) : test(cmd.subcommands[i])

\* Token tok names subcommand sub by text, by long flag or by short flag.
SelectsByText(sub, tok) ==
    "text" \in DOMAIN tok /\ ~sub.disallowWithoutFlag /\ tok.text = sub.name

SelectsByLongFlag(sub, tok) ==
    /\ "long" \in DOMAIN tok
    /\ sub.longFlag # Undefined
    /\ SubSeq(tok.long, 3, Len(tok.long)) \in LongFlags(sub)

SelectsByShortFlag(sub, tok) ==
    /\ "short" \in DOMAIN tok
    /\ sub.shortFlag # Undefined
    /\ Len(tok.short) >= 2
    /\ SubSeq(tok.short, 2, 2) \in ShortFlags(sub)

Selects(sub, tok) ==
    SelectsByText(sub, tok) \/ SelectsByLongFlag(sub, tok) \/ SelectsByShortFlag(sub, tok)

\* handle has evaluated a token: matched holds the command it was evaluated against,
\* the token, and what matchSubcommand gave.
Evaluated == matched # NoMatch

\* C4: when handle completes without an error, the action of the command resolution
\* ended at has run exactly once (if it declares one) and no other action has run.
C4_ActionInvokedOnce ==
    pc = "returned" => invoked = (IF command.action THEN <<command>> ELSE <<>>)

\* C5: a token that names a declared subcommand selects the first such subcommand,
\* even beside a default sibling; only when none is named does the current command
\* advance to the default subcommand, the token staying at the front of the queue to
\* be evaluated next.  (A long flag carrying an inline value is C8's case.)
C5_MatchBeforeDefault ==
    (Evaluated /\ "argument" \notin DOMAIN matched.argument) =>
        LET cur == matched.command
            tok == matched.argument
            named(sub) == Selects(sub, tok)
        IN  IF SomeSubcommand(cur, named)
            THEN command = FirstSubcommand(cur, named)
            ELSE DefaultSubcommand(cur) # NoObject =>
                    /\ command = DefaultSubcommand(cur)
                    /\ pc = "loop"
                    /\ Len(args) > 0 /\ Head(args) = tok

\* C6: a bundle whose first letter is a subcommand's short flag or short alias makes
\* that subcommand current; a one-letter bundle is consumed whole, a longer one
\* leaves a bundle of its remaining letters at the front of the queue, evaluated next.
C6_ShortBundleSelects ==
    LET cur == matched.command
        tok == matched.argument
        named(sub) == SelectsByShortFlag(sub, tok)
    IN  (Evaluated /\ SomeSubcommand(cur, named)) =>
            /\ command = FirstSubcommand(cur, named)
            /\ IF Len(tok.short) = 2
               THEN /\ Len(args) < Len(parsedArgs)
                    /\ args = SubSeq(parsedArgs, Len(parsedArgs) - Len(args) + 1, Len(parsedArgs))
               ELSE /\ pc = "loop"
                    /\ Len(args) > 0
                    /\ Head(args) = [short |-> "-" \o SubSeq(tok.short, 3, Len(tok.short))]

\* C7: a Text token equal to the name or to an alias of a subcommand that is not
\* disallowWithoutFlag selects such a subcommand; a disallowWithoutFlag subcommand is
\* never selected by text (matchSubcommand gives it for a Text token only as the
\* default, the token handed on).
C7_TextSelectsByNameOrAlias ==
    LET cur == matched.command
        tok == matched.argument
        res == matched.result
        named(sub) ==
            /\ ~sub.disallowWithoutFlag
            /\ \/ tok.text = sub.name
               \/ \E k \in 1..Len(sub.alias) : tok.text = sub.alias[k]
    IN  (Evaluated /\ "text" \in DOMAIN tok) =>
            /\ SomeSubcommand(cur, named) =>
                  /\ res.sub # NoObject
                  /\ named(res.sub)
                  /\ res.nextArg = NoObject
            /\ (res.sub # NoObject /\ res.sub.disallowWithoutFlag) =>
                  res.sub.isDefault /\ res.nextArg = tok

\* C8: a LongFlag token naming a subcommand's longFlag or long alias fails handle with
\* SubcommandLongFlagValue (invalid-user-input), no action run, when it carries an
\* inline value; without an inline value it selects the subcommand with no error.
C8_LongFlagInlineValue ==
    LET cur == matched.command
        tok == matched.argument
        named(sub) == SelectsByLongFlag(sub, tok)
    IN  (Evaluated /\ SomeSubcommand(cur, named)) =>
            IF "argument" \in DOMAIN tok
            THEN /\ pc = "threw"
                 /\ thrown = "ClapSubcommandLongFlagValueError"
                 /\ ErrorKind(thrown) = "invalid-user-input"
                 /\ invoked = <<>>
            ELSE /\ matched.result.sub = FirstSubcommand(cur, named)
                 /\ thrown = "none"

\* C9: when the queue is exhausted at a command with subcommandRequired, none of its
\* subcommands selected, handle does not return normally: it fails with an
\* invalid-user-input error and no action has run.
C9_SubcommandRequired ==
    /\ pc = "returned" => ~command.subcommandRequired
    /\ (pc = "threw" /\ ~Evaluated /\ command.subcommandRequired) =>
          ErrorKind(thrown) = "invalid-user-input" /\ invoked = <<>>

\* C10: on a validated tree handle completes normally or fails with an
\* invalid-user-input error: never a library-bug error, never a configuration error.
C10_OnlyUserInputErrors ==
    pc \in {"loop", "threw", "returned"} =>
        ErrorKind(thrown) \in {"none", "invalid-user-input"}

\* Command x itself breaks one of the configuration rules: subcommandRequired with
\* no subcommands; disallowWithoutFlag with neither flag set; a shortFlag or a short
\* alias that is not exactly one character long; aliases of a flag that is not set.
BreaksRule(x) ==
    \/ x.subcommandRequired /\ Len(x.subcommands) = 0
    \/ x.disallowWithoutFlag /\ x.longFlag = Undefined /\ x.shortFlag = Undefined
    \/ x.shortFlag # Undefined /\ Len(x.shortFlag) # 1
    \/ \E i \in 1..Len(x.shortFlagAliases) : Len(x.shortFlagAliases[i]) # 1
    \/ Len(x.longFlagAliases) > 0 /\ x.longFlag = Undefined
    \/ Len(x.shortFlagAliases) > 0 /\ x.shortFlag = Undefined

RECURSIVE SomeCommandBreaksRule(_)
\* Some command of the tree under cmd, cmd included, breaks one of these rules.
SomeCommandBreaksRule(cmd) ==
    \/ BreaksRule(cmd)
    \/ \E i \in 1..Len(cmd.subcommands) : SomeCommandBreaksRule(cmd.subcommands[i])

\* C13: validateCommandOptions raises ClapConfigurationError for every tree in which
\* some command, at any depth, breaks one of the configuration rules; a shortFlag or
\* short alias of length zero, or of two or more, breaks the one-character rule.
C13_ValidationRejects ==
    (pc # "start" /\ SomeCommandBreaksRule(options)) =>
        pc = "rejected" /\ thrown = "ClapConfigurationError"

====
